---- MODULE Spec2Model ----
(***************************************************************************)
(* A model of the log analyzer (scripts/log_analyzer.py): the line parser, *)
(* the file tailer, the batch issue detector, the issue store and the      *)
(* ingestion loop, together with the environment the loop runs in (a       *)
(* writer appending to the monitored files, an operator resolving issues,  *)
(* the database failing, the interrupt that stops the process).            *)
(*                                                                         *)
(* Text is modelled character by character: a string is a sequence of      *)
(* one-character strings, so that the regular expressions, strip(),        *)
(* lower(), readlines() and the byte offsets of seek()/tell() are computed *)
(* as the code computes them (all text is ASCII: one character, one byte). *)
(***************************************************************************)
EXTENDS Integers, Sequences, FiniteSets, TLC

(***************************************************************************)
(* Characters                                                              *)
(***************************************************************************)
NL == "\n"

Digits == <<"0", "1", "2", "3", "4", "5", "6", "7", "8", "9">>

UpperLetters == <<"A", "B", "C", "D", "E", "F", "G", "H", "I", "J", "K", "L", "M",
                  "N", "O", "P", "Q", "R", "S", "T", "U", "V", "W", "X", "Y", "Z">>

LowerLetters == <<"a", "b", "c", "d", "e", "f", "g", "h", "i", "j", "k", "l", "m",
                  "n", "o", "p", "q", "r", "s", "t", "u", "v", "w", "x", "y", "z">>

\* The characters of the model in code-point order (str comparison, sort()).
Alphabet == <<NL, " ", "-", ".">> \o Digits \o <<":">> \o UpperLetters
            \o <<"[", "]", "_">> \o LowerLetters

Range(s) == {s[i] : i \in DOMAIN s}

IndexOf(s, c) == CHOOSE i \in DOMAIN s : s[i] = c

Ord(c) == IndexOf(Alphabet, c)

\* \d of the re module
IsDigit(c) == c \in Range(Digits)

\* \w of the re module
IsWord(c) == c \in Range(Digits) \cup Range(UpperLetters) \cup Range(LowerLetters) \cup {"_"}

\* \s of the re module, and the characters str.strip() removes
IsSpace(c) == c \in {" ", NL}

\* str.lower() on one character
LowerChar(c) == IF c \in Range(UpperLetters) THEN LowerLetters[IndexOf(UpperLetters, c)] ELSE c

lower(s) == [i \in DOMAIN s |-> LowerChar(s[i])]

DigitVal(c) == IndexOf(Digits, c) - 1

\* int() of a run of digits
RECURSIVE int(_)
int(s) == IF s = <<>> THEN 0 ELSE 10 * int(SubSeq(s, 1, Len(s) - 1)) + DigitVal(s[Len(s)])

\* s[i:] of Python, with i counted from 1
From(s, i) == SubSeq(s, i, Len(s))

\* the length of the longest prefix of s whose characters all satisfy the class
\* (written without recursion: a response time may have thousands of digits)
First(stops) == CHOOSE i \in stops : \A j \in stops : i <= j

SpanDigit(s) ==
    LET stops == {i \in DOMAIN s : ~IsDigit(s[i])}
    IN IF stops = {} THEN Len(s) ELSE First(stops) - 1

RECURSIVE SpanWord(_)
SpanWord(s) == IF s # <<>> /\ IsWord(s[1]) THEN 1 + SpanWord(Tail(s)) ELSE 0

RECURSIVE SpanSpace(_)
SpanSpace(s) == IF s # <<>> /\ IsSpace(s[1]) THEN 1 + SpanSpace(Tail(s)) ELSE 0

RECURSIVE SpanNotClose(_)
SpanNotClose(s) == IF s # <<>> /\ s[1] # "]" THEN 1 + SpanNotClose(Tail(s)) ELSE 0

SpanNotNewline(s) ==
    LET stops == {i \in DOMAIN s : s[i] = NL}
    IN IF stops = {} THEN Len(s) ELSE First(stops) - 1

RECURSIVE SpanSpaceEnd(_)
SpanSpaceEnd(s) ==
    IF s # <<>> /\ IsSpace(s[Len(s)]) THEN 1 + SpanSpaceEnd(SubSeq(s, 1, Len(s) - 1)) ELSE 0

\* str.strip()
strip(s) == SubSeq(s, 1 + SpanSpace(s), Len(s) - SpanSpaceEnd(s))

\* needle in haystack
Contains(hay, needle) ==
    \E i \in 1..(Len(hay) - Len(needle) + 1) : SubSeq(hay, i, i + Len(needle) - 1) = needle

startswith(s, p) == Len(s) >= Len(p) /\ SubSeq(s, 1, Len(p)) = p

endswith(s, p) == Len(s) >= Len(p) /\ SubSeq(s, Len(s) - Len(p) + 1, Len(s)) = p

\* a < b for str
RECURSIVE StrLess(_, _)
StrLess(a, b) ==
    IF b = <<>> THEN FALSE
    ELSE IF a = <<>> THEN TRUE
    ELSE IF a[1] # b[1] THEN Ord(a[1]) < Ord(b[1])
    ELSE StrLess(Tail(a), Tail(b))

(***************************************************************************)
(* LOG PARSING                                                             *)
(***************************************************************************)
\* An optional value: None, or Some(v)
None == <<>>

Some(v) == <<v>>

Get(o) == o[1]

\* \d{4}-\d{2}-\d{2} \d{2}:\d{2}:\d{2}
TimestampShape == <<"d", "d", "d", "d", "-", "d", "d", "-", "d", "d", " ",
                    "d", "d", ":", "d", "d", ":", "d", "d">>

MatchTimestamp(s) ==
    /\ Len(s) >= Len(TimestampShape)
    /\ \A i \in DOMAIN TimestampShape :
          IF TimestampShape[i] = "d" THEN IsDigit(s[i]) ELSE s[i] = TimestampShape[i]

\* LOG_PATTERN.match(s): the groups, or None.  Every quantifier of the pattern is
\* followed by a character outside its class (or by .*, which matches the empty
\* string), so the greedy match is the only match and no backtracking changes it.
LOG_PATTERN(s) ==
    IF ~MatchTimestamp(s) THEN None
    ELSE LET a  == From(s, Len(TimestampShape) + 1)
             s1 == SpanSpace(a)
             b  == From(a, s1 + 1)
             w  == SpanWord(b)
             c  == From(b, w + 1)
             s2 == SpanSpace(c)
             d  == From(c, s2 + 1)
         IN IF s1 = 0 \/ w = 0 \/ s2 = 0 \/ d = <<>> \/ d[1] # "[" THEN None
            ELSE LET e  == Tail(d)
                     k  == SpanNotClose(e)
                     f  == From(e, k + 1)
                 IN IF k = 0 \/ f = <<>> THEN None
                    ELSE LET g  == Tail(f)
                             s3 == SpanSpace(g)
                         IN IF s3 = 0 THEN None
                            ELSE Some([timestamp |-> SubSeq(s, 1, Len(TimestampShape)),
                                       level     |-> SubSeq(b, 1, w),
                                       component |-> SubSeq(e, 1, k),
                                       message   |-> LET h == From(g, s3 + 1)
                                                     IN SubSeq(h, 1, SpanNotNewline(h))])

\* TIME_PATTERN.search(s): group 1 of the leftmost match of (\d+)ms, or None
RECURSIVE TIME_PATTERN(_)
TIME_PATTERN(s) ==
    IF s = <<>> THEN None
    ELSE LET n == SpanDigit(s)
         IN IF n > 0 /\ startswith(From(s, n + 1), <<"m", "s">>) THEN Some(SubSeq(s, 1, n))
            ELSE TIME_PATTERN(Tail(s))

\* parse_log_line without the user_id and error_code fields, which no heuristic reads
parse_log_line(line) ==
    LET match == LOG_PATTERN(strip(line))
    IN IF match = None THEN None
       ELSE LET data       == Get(match)
                time_match == TIME_PATTERN(data.message)
            IN Some([timestamp     |-> data.timestamp,
                     level         |-> data.level,
                     component     |-> data.component,
                     message       |-> data.message,
                     response_time |-> IF time_match # None THEN Some(int(Get(time_match)))
                                       ELSE None])

\* USER_ID_PATTERN.search(s): group 1 of the leftmost match of user_id[=:](\d+), or None
USER_ID_PATTERN(s) ==
    LET key     == <<"u", "s", "e", "r", "_", "i", "d">>
        matches == {i \in DOMAIN s : /\ startswith(From(s, i), key)
                                     /\ Len(s) >= i + Len(key)
                                     /\ s[i + Len(key)] \in {"=", ":"}
                                     /\ SpanDigit(From(s, i + Len(key) + 1)) > 0}
    IN IF matches = {} THEN None
       ELSE LET digits == From(s, First(matches) + Len(key) + 1)
            IN Some(SubSeq(digits, 1, SpanDigit(digits)))

\* sys.get_int_max_str_digits() of CPython 3.11: int() of a longer string of digits
\* raises ValueError
int_max_str_digits == 4300

\* parse_log_line raises: one of its two calls of int() is given more digits than
\* int() converts
parse_raises(line) ==
    LET match == LOG_PATTERN(strip(line))
    IN /\ match # None
       /\ LET time_match == TIME_PATTERN(Get(match).message)
              user_match == USER_ID_PATTERN(Get(match).message)
          IN \/ time_match # None /\ Len(Get(time_match)) > int_max_str_digits
             \/ user_match # None /\ Len(Get(user_match)) > int_max_str_digits

(***************************************************************************)
(* ISSUE DETECTION                                                         *)
(***************************************************************************)
Str_ERROR == <<"E", "R", "R", "O", "R">>

Str_Database == <<"D", "a", "t", "a", "b", "a", "s", "e">>

Str_API == <<"A", "P", "I">>

Str_Auth == <<"A", "u", "t", "h">>

Str_timeout == <<"t", "i", "m", "e", "o", "u", "t">>

Str_failed == <<"f", "a", "i", "l", "e", "d">>

Str_invalid == <<"i", "n", "v", "a", "l", "i", "d">>

\* by_component_keys with one key for every record: the loop of ISSUE 1 made over the
\* records in the place of the keys of by_component
by_component_keys_repeated(entries) == [i \in DOMAIN entries |-> entries[i].component]

\* the keys of by_component, in the order the dict received them
RECURSIVE by_component_keys(_)
by_component_keys(entries) ==
    IF entries = <<>> THEN <<>>
    ELSE LET before == by_component_keys(SubSeq(entries, 1, Len(entries) - 1))
             component == entries[Len(entries)].component
         IN IF component \in Range(before) THEN before ELSE Append(before, component)

IsError(e) == e.level = Str_ERROR

\* entry["response_time"] and entry["response_time"] > 3000
IsSlow(e) == e.response_time # None /\ Get(e.response_time) # 0 /\ Get(e.response_time) > 3000

RECURSIVE SumResponseTime(_)
SumResponseTime(s) == IF s = <<>> THEN 0 ELSE Get(s[1].response_time) + SumResponseTime(Tail(s))

\* ErrorRateAbove with >= in the place of >
ErrorRateAbove_inclusive(error_count, total_count, pct) ==
    error_count * 100 >= pct * total_count

\* error_count / total_count * 100 > pct.  The code compares floats; for counts
\* below 3000 the float comparison and this exact one agree for pct 10 and 20.
ErrorRateAbove(error_count, total_count, pct) == error_count * 100 > pct * total_count

\* ISSUE 1 for one component: the observation, or nothing.  A description is
\* modelled by the values its f-string interpolates.
HighErrorRate(entries, component) ==
    LET comp_entries == SelectSeq(entries, LAMBDA e : e.component = component)
        error_count  == Len(SelectSeq(comp_entries, IsError))
        total_count  == Len(comp_entries)
    IN IF ErrorRateAbove(error_count, total_count, 10)
       THEN <<[issue_type       |-> "High Error Rate",
               severity         |-> IF ErrorRateAbove(error_count, total_count, 20)
                                    THEN "HIGH" ELSE "MEDIUM",
               description      |-> <<component, error_count, total_count>>,
               component        |-> component,
               occurrence_count |-> error_count]>>
       ELSE <<>>

RECURSIVE HighErrorRates(_, _)
HighErrorRates(entries, components) ==
    IF components = <<>> THEN <<>>
    ELSE HighErrorRate(entries, components[1]) \o HighErrorRates(entries, Tail(components))

\* ISSUE 2
DatabaseTimeout(entries) ==
    LET errors == SelectSeq(entries, IsError)
        db_timeouts == SelectSeq(errors, LAMBDA e : /\ e.component = Str_Database
                                                 /\ Contains(lower(e.message), Str_timeout))
    IN IF Len(db_timeouts) > 0
       THEN <<[issue_type       |-> "Database Timeout",
               severity         |-> IF Len(db_timeouts) > 5 THEN "CRITICAL" ELSE "HIGH",
               description      |-> <<Len(db_timeouts)>>,
               component        |-> Str_Database,
               occurrence_count |-> Len(db_timeouts)]>>
       ELSE <<>>

\* SlowResponseTime with the component of the first slow record
SlowResponseTime_own_component(entries) ==
    LET slow_responses == SelectSeq(entries, IsSlow)
    IN IF Len(slow_responses) > 0
       THEN <<[issue_type       |-> "Slow Response Time",
               severity         |-> "MEDIUM",
               description      |-> <<Len(slow_responses), SumResponseTime(slow_responses)>>,
               component        |-> slow_responses[1].component,
               occurrence_count |-> Len(slow_responses)]>>
       ELSE <<>>

\* ISSUE 3
SlowResponseTime(entries) ==
    LET slow_responses == SelectSeq(entries, IsSlow)
    IN IF Len(slow_responses) > 0
       THEN <<[issue_type       |-> "Slow Response Time",
               severity         |-> "MEDIUM",
               description      |-> <<Len(slow_responses), SumResponseTime(slow_responses)>>,
               component        |-> Str_API,
               occurrence_count |-> Len(slow_responses)]>>
       ELSE <<>>

\* AuthenticationFailures with >= 5 in the place of > 5
AuthenticationFailures_inclusive(entries) ==
    LET errors == SelectSeq(entries, IsError)
        auth_failures == SelectSeq(errors, LAMBDA e : /\ e.component = Str_Auth
                                                   /\ \/ Contains(lower(e.message), Str_failed)
                                                      \/ Contains(lower(e.message), Str_invalid))
    IN IF Len(auth_failures) >= 5
       THEN <<[issue_type       |-> "Authentication Failures",
               severity         |-> "HIGH",
               description      |-> <<Len(auth_failures)>>,
               component        |-> Str_Auth,
               occurrence_count |-> Len(auth_failures)]>>
       ELSE <<>>

\* ISSUE 4
AuthenticationFailures(entries) ==
    LET errors == SelectSeq(entries, IsError)
        auth_failures == SelectSeq(errors, LAMBDA e : /\ e.component = Str_Auth
                                                   /\ \/ Contains(lower(e.message), Str_failed)
                                                      \/ Contains(lower(e.message), Str_invalid))
    IN IF Len(auth_failures) > 5
       THEN <<[issue_type       |-> "Authentication Failures",
               severity         |-> "HIGH",
               description      |-> <<Len(auth_failures)>>,
               component        |-> Str_Auth,
               occurrence_count |-> Len(auth_failures)]>>
       ELSE <<>>

\* issues_to_insert of detect_issues
issues_to_insert(entries) ==
    HighErrorRates(entries, by_component_keys(entries)) \o DatabaseTimeout(entries)
        \o SlowResponseTime(entries) \o AuthenticationFailures(entries)

(***************************************************************************)
(* FILE MONITORING                                                         *)
(***************************************************************************)
\* CONFIG["logging"]["log_file_prefix"]
log_file_prefix == <<"a", "p", "p", "_">>

Str_dot_log == <<".", "l", "o", "g">>

\* get_latest_log_file: dir maps the names in the log directory to their contents
get_latest_log_file(dir) ==
    LET log_files == {f \in DOMAIN dir : startswith(f, log_file_prefix) /\ endswith(f, Str_dot_log)}
    IN IF log_files = {} THEN None
       ELSE Some(CHOOSE f \in log_files : \A g \in log_files : g = f \/ StrLess(g, f))

\* file.readlines(): every line keeps its newline; the last may have none
RECURSIVE readlines(_)
readlines(data) ==
    IF data = <<>> THEN <<>>
    ELSE LET k == SpanNotNewline(data)
         IN IF k = Len(data) THEN <<data>>
            ELSE <<SubSeq(data, 1, k + 1)>> \o readlines(From(data, k + 2))

\* tail_file without f.seek(last_position): every read starts at the head of the file
tail_file_from_start(dir, filepath, last_position) ==
    IF filepath \notin DOMAIN dir THEN [new_lines |-> <<>>, new_position |-> last_position]
    ELSE LET content == dir[filepath]
         IN [new_lines |-> readlines(content), new_position |-> Len(content)]

\* tail_file: the new lines and the new position
tail_file(dir, filepath, last_position) ==
    IF filepath \notin DOMAIN dir THEN [new_lines |-> <<>>, new_position |-> last_position]
    ELSE LET content == dir[filepath]
         IN [new_lines    |-> readlines(From(content, last_position + 1)),
             new_position |-> IF last_position > Len(content) THEN last_position
                              ELSE Len(content)]

\* the parsed_entries of one cycle of main
RECURSIVE parse_lines(_)
parse_lines(lines) ==
    IF lines = <<>> THEN <<>> ELSE parse_log_line(lines[1]) \o parse_lines(Tail(lines))

(***************************************************************************)
(* The environment's inputs                                                *)
(***************************************************************************)
Str_stamp == <<"2", "0", "2", "4", "-", "0", "1", "-", "0", "1", " ",
               "1", "0", ":", "0", "0", ":", "0", "0">>

\* 2024-01-01 10:00:00 ERROR [Database] Timeout
Line_DbTimeout == Str_stamp \o <<" ">> \o Str_ERROR \o <<" ", "[">> \o Str_Database
                  \o <<"]", " ", "T">> \o Tail(Str_timeout)

\* 2024-01-01 10:00:00 INFO [API] ok
Line_ApiOk == Str_stamp \o <<" ", "I", "N", "F", "O", " ", "[">> \o Str_API
              \o <<"]", " ", "o", "k">>

\* The lines the writer writes.  Text outside the grammar reaches the parser as the
\* second piece of a line written in two pieces.
LineSet == {Line_DbTimeout, Line_ApiOk}

File_A == log_file_prefix \o <<"1">> \o Str_dot_log

File_B == log_file_prefix \o <<"2">> \o Str_dot_log

\* a file of the log directory that is no log file: app_9.txt
File_Other == log_file_prefix \o <<"9", ".", "t", "x", "t">>

FileNames == {File_A, File_B}

\* lines the writer writes in one run
MaxWrites == 2

\* how many characters of a line's text a first, partial write() leaves to the second
Cuts == {1}

(***************************************************************************)
(* State                                                                   *)
(***************************************************************************)
VARIABLES
    dir,              \* the log directory: file name -> content
    wrest,            \* the writer's line in progress: None, or Some([file, rest])
    nwrites,          \* lines written so far
    pc,               \* where main is
    conn,             \* "unset", "none" (get_db_connection returned None), "open", "closed"
    log_file,         \* main's log_file
    current_file,     \* main's current_file
    last_position,    \* main's last_position
    new_lines,        \* main's new_lines
    parsed_entries,   \* main's parsed_entries
    todo,             \* insert_issues: the issues the for loop has not reached yet
    existing,         \* insert_issues: the row the SELECT fetched, or None
    log_entries,      \* table log_entries, committed rows in insertion order
    issues,           \* table issues, committed rows: id -> row
    tx_writes,        \* rows the open transaction wrote and has not committed: id -> row
    now,              \* the clock: NOW() of the latest issue transaction
    \* history, read by the properties only
    complete_lines,   \* every line the writer has finished, newline included
    steps,            \* the steps of the loop that have run
    switched,         \* this cycle's discovery returned a path other than the tracked one
    read_from,        \* the offset this cycle's tail_file was given, or None
    insert_failed,    \* this cycle's bulk insert failed
    persisted,        \* this cycle's bulk insert was committed
    reconciled,       \* this cycle's issue transaction was committed
    detected,         \* this cycle's detect_issues returned
    tx_obs,           \* the observations the open transaction has reconciled
    ledger,           \* pair -> [n, sum, first, last] of the committed reconciles
    resolved_pairs,   \* the pairs the operator has resolved an issue of
    appended,         \* SpecTail: the lines appended since the latest read
    expected          \* SpecTail: the lines that had been appended when the latest read began

tailVars == <<appended, expected>>

envVars == <<dir, wrest, nwrites, complete_lines, tailVars>>

loopVars == <<pc, conn, log_file, current_file, last_position, new_lines, parsed_entries,
              todo, existing>>

storeVars == <<log_entries, issues, tx_writes, now>>

cycleVars == <<switched, read_from, insert_failed, persisted, reconciled, detected>>

histVars == <<steps, tx_obs, ledger, resolved_pairs>>

vars == <<envVars, loopVars, storeVars, cycleVars, histVars>>

LoopPcs == {"discover", "read", "persist", "detect", "select", "write", "commit", "sleep"}

Pair(r) == <<r.issue_type, r.component>>

\* the issues table as the open transaction sees it
View == [id \in DOMAIN issues \cup DOMAIN tx_writes |->
            IF id \in DOMAIN tx_writes THEN tx_writes[id] ELSE issues[id]]

Init ==
    /\ dir = (File_Other :> <<>>)
    /\ wrest = None
    /\ nwrites = 0
    /\ pc = "connect"
    /\ conn = "unset"
    /\ log_file = None
    /\ current_file = None
    /\ last_position = 0
    /\ new_lines = <<>>
    /\ parsed_entries = <<>>
    /\ todo = <<>>
    /\ existing = None
    /\ log_entries = <<>>
    /\ issues = <<>>
    /\ tx_writes = <<>>
    /\ now = 0
    /\ complete_lines = {}
    /\ steps = {}
    /\ switched = FALSE
    /\ read_from = None
    /\ insert_failed = FALSE
    /\ persisted = FALSE
    /\ reconciled = FALSE
    /\ detected = FALSE
    /\ tx_obs = <<>>
    /\ ledger = <<>>
    /\ resolved_pairs = {}
    /\ appended = <<>>
    /\ expected = <<>>

(***************************************************************************)
(* The environment: the writer of the log files, whoever removes them, and *)
(* the operator who marks issues resolved.  It is followed for as long as  *)
(* the analyzer runs.  main reads the directory in get_latest_log_file and *)
(* in tail_file only, and the issues table inside insert_issues only, so   *)
(* the environment's steps are interleaved at those places: a write at any *)
(* other moment is seen exactly as the same write made just before the     *)
(* next get_latest_log_file (between it and tail_file, an append to the    *)
(* file it returned is seen as one made before it, and the creation of     *)
(* another file as one made after tail_file); a removal is seen as one     *)
(* made just before get_latest_log_file or, when it removes the file that  *)
(* get_latest_log_file returned, just before tail_file; and a resolution   *)
(* is seen as one made just before the first SELECT of the next            *)
(* transaction (the issues of one batch have different pairs, so a SELECT  *)
(* never returns a row an earlier statement of its transaction looked      *)
(* for) or, when it resolves the row a SELECT fetched, just before the     *)
(* UPDATE of that row.                                                     *)
(***************************************************************************)
BeforeDiscovery == pc = "discover"

BeforeTail(f) == pc = "read" /\ log_file = Some(f)

BeforeSelect == pc = "select" /\ tx_obs = <<>>

BeforeUpdate(id) == pc = "write" /\ existing # None /\ Get(existing).id = id
Put(d, f, content) == [g \in DOMAIN d \cup {f} |-> IF g = f THEN content ELSE d[g]]

ContentOf(d, f) == IF f \in DOMAIN d THEN d[f] ELSE <<>>

\* f.write(log_entry + "\n"); f.flush() reaching the file in one piece
WriteLine(f, line) ==
    /\ BeforeDiscovery
    /\ wrest = None
    /\ nwrites < MaxWrites
    /\ dir' = Put(dir, f, ContentOf(dir, f) \o line \o <<NL>>)
    /\ complete_lines' = complete_lines \cup {line \o <<NL>>}
    /\ nwrites' = nwrites + 1
    /\ UNCHANGED <<tailVars, wrest, loopVars, storeVars, cycleVars, histVars>>

\* the same reaching the file in two pieces: the first piece
WritePart(f, line, cut) ==
    /\ BeforeDiscovery
    /\ wrest = None
    /\ nwrites < MaxWrites
    /\ cut < Len(line)
    /\ dir' = Put(dir, f, ContentOf(dir, f) \o SubSeq(line, 1, Len(line) - cut))
    /\ wrest' = Some([file |-> f, whole |-> line \o <<NL>>,
                      rest |-> From(line, Len(line) - cut + 1) \o <<NL>>])
    /\ nwrites' = nwrites + 1
    /\ UNCHANGED <<tailVars, complete_lines, loopVars, storeVars, cycleVars, histVars>>

\* the second piece
WriteRest ==
    /\ BeforeDiscovery
    /\ wrest # None
    /\ LET w == Get(wrest)
       IN /\ dir' = Put(dir, w.file, ContentOf(dir, w.file) \o w.rest)
          /\ complete_lines' = complete_lines \cup {w.whole}
    /\ wrest' = None
    /\ UNCHANGED <<tailVars, nwrites, loopVars, storeVars, cycleVars, histVars>>

\* a log file is removed (the writer is not in the middle of a line of it)
DeleteFile(f) ==
    /\ BeforeDiscovery \/ BeforeTail(f)
    /\ f \in DOMAIN dir
    /\ IF wrest = None THEN TRUE ELSE Get(wrest).file # f
    /\ dir' = [g \in DOMAIN dir \ {f} |-> dir[g]]
    /\ UNCHANGED <<tailVars, wrest, nwrites, complete_lines, loopVars, storeVars, cycleVars, histVars>>

\* the operator: UPDATE issues SET resolved = TRUE WHERE id = ..., committed at
\* once; it waits for a row the open transaction has written
Resolve(id) ==
    /\ BeforeSelect \/ BeforeUpdate(id)
    /\ id \in DOMAIN issues
    /\ id \notin DOMAIN tx_writes
    /\ ~issues[id].resolved
    /\ issues' = [issues EXCEPT ![id].resolved = TRUE]
    /\ resolved_pairs' = resolved_pairs \cup {Pair(issues[id])}
    /\ UNCHANGED <<envVars, loopVars, log_entries,
                   tx_writes, now, cycleVars,
                   steps, tx_obs, ledger>>

(***************************************************************************)
(* MAIN LOOP                                                               *)
(***************************************************************************)
\* Connect without "if not conn: return"
Connect_unchecked ==
    /\ pc = "connect"
    /\ \E connected \in BOOLEAN :
          /\ conn' = IF connected THEN "open" ELSE "none"
          /\ pc' = "discover"
    /\ UNCHANGED <<envVars, log_file, current_file, last_position, new_lines, parsed_entries,
                   todo, existing, storeVars, cycleVars, histVars>>

\* conn = get_db_connection(); if not conn: return
Connect ==
    /\ pc = "connect"
    /\ \E connected \in BOOLEAN :
          IF connected THEN conn' = "open" /\ pc' = "discover"
          ELSE conn' = "none" /\ pc' = "exited"
    /\ UNCHANGED <<envVars, log_file, current_file, last_position, new_lines, parsed_entries,
                   todo, existing, storeVars, cycleVars, histVars>>

\* PositionAfterDiscovery without the reset: the offset of the file tracked before
PositionAfterDiscovery_kept(found) == last_position

\* if log_file != current_file: ... last_position = 0
PositionAfterDiscovery(found) == IF found # current_file THEN 0 ELSE last_position

\* Discover with the tracking reset when no file is found
Discover_forgets ==
    /\ pc = "discover"
    /\ LET found == get_latest_log_file(dir)
       IN /\ log_file' = found
          /\ IF found = None
             THEN /\ pc' = "sleep"
                  /\ switched' = FALSE
                  /\ current_file' = None
                  /\ last_position' = 0
             ELSE /\ pc' = "read"
                  /\ switched' = (found # current_file)
                  /\ current_file' = found
                  /\ last_position' = PositionAfterDiscovery(found)
    /\ steps' = steps \cup {"discover"}
    /\ UNCHANGED <<envVars, conn, new_lines, parsed_entries, todo, existing, storeVars,
                   read_from, insert_failed, persisted, reconciled, detected,
                   tx_obs, ledger, resolved_pairs>>

\* log_file = get_latest_log_file(), and the reset of the position
Discover ==
    /\ pc = "discover"
    /\ LET found == get_latest_log_file(dir)
       IN /\ log_file' = found
          /\ IF found = None
             THEN /\ pc' = "sleep"
                  /\ switched' = FALSE
                  /\ UNCHANGED <<current_file, last_position>>
             ELSE /\ pc' = "read"
                  /\ switched' = (found # current_file)
                  /\ current_file' = found
                  /\ last_position' = PositionAfterDiscovery(found)
    /\ steps' = steps \cup {"discover"}
    /\ UNCHANGED <<envVars, conn, new_lines, parsed_entries, todo, existing, storeVars,
                   read_from, insert_failed, persisted, reconciled, detected,
                   tx_obs, ledger, resolved_pairs>>

\* new_lines, last_position = tail_file(log_file, last_position), and the parse
Read ==
    /\ pc = "read"
    /\ LET r == tail_file(dir, Get(log_file), last_position)
       IN /\ new_lines' = r.new_lines
          /\ last_position' = r.new_position
          /\ parsed_entries' = parse_lines(r.new_lines)
    /\ pc' = IF new_lines' # <<>> /\ parsed_entries' # <<>> THEN "persist" ELSE "sleep"
    /\ read_from' = Some(last_position)
    /\ steps' = steps \cup {"read"}
    /\ UNCHANGED <<envVars, conn, log_file, current_file, todo, existing, storeVars,
                   switched, insert_failed, persisted, reconciled, detected,
                   tx_obs, ledger, resolved_pairs>>

\* insert_log_entries: execute_values and commit succeed
PersistCommitted ==
    /\ pc = "persist"
    /\ log_entries' = log_entries \o parsed_entries
    /\ persisted' = TRUE
    /\ pc' = "detect"
    /\ steps' = steps \cup {"persist"}
    /\ UNCHANGED <<envVars, conn, log_file, current_file, last_position, new_lines,
                   parsed_entries, todo, existing, issues, tx_writes, now,
                   switched, read_from, insert_failed, reconciled, detected,
                   tx_obs, ledger, resolved_pairs>>

\* insert_log_entries: an exception, the message and conn.rollback()
PersistFailed ==
    /\ pc = "persist"
    /\ insert_failed' = TRUE
    /\ pc' = "detect"
    /\ steps' = steps \cup {"persist"}
    /\ UNCHANGED <<envVars, conn, log_file, current_file, last_position, new_lines,
                   parsed_entries, todo, existing, storeVars,
                   switched, read_from, persisted, reconciled, detected,
                   tx_obs, ledger, resolved_pairs>>

\* detect_issues up to its call of insert_issues, and insert_issues' early return
Detect ==
    /\ pc = "detect"
    /\ todo' = issues_to_insert(parsed_entries)
    /\ IF todo' = <<>>
       THEN pc' = "sleep" /\ detected' = TRUE
       ELSE pc' = "select" /\ detected' = FALSE
    /\ steps' = steps \cup {"detect"}
    /\ UNCHANGED <<envVars, conn, log_file, current_file, last_position, new_lines,
                   parsed_entries, existing, storeVars,
                   switched, read_from, insert_failed, persisted, reconciled,
                   tx_obs, ledger, resolved_pairs>>

\* main returns or dies: its variables are gone
Exit ==
    /\ log_file' = None
    /\ current_file' = None
    /\ last_position' = 0
    /\ new_lines' = <<>>
    /\ parsed_entries' = <<>>
    /\ todo' = <<>>
    /\ existing' = None

\* Raise after statements that were committed one by one
Raise_committed ==
    /\ pc' = "crashed"
    /\ conn' = "closed"
    /\ issues' = View
    /\ tx_writes' = <<>>
    /\ tx_obs' = <<>>
    /\ Exit
    /\ UNCHANGED <<envVars, log_entries, now, cycleVars,
                   steps, ledger, resolved_pairs>>

\* an exception out of insert_issues: nothing in main catches it; finally: conn.close()
\* drops the open transaction
Raise ==
    /\ pc' = "crashed"
    /\ conn' = "closed"
    /\ tx_writes' = <<>>
    /\ tx_obs' = <<>>
    /\ Exit
    /\ UNCHANGED <<envVars, log_entries, issues, now, cycleVars,
                   steps, ledger, resolved_pairs>>

\* Matching with resolved = TRUE in the WHERE clause
Matching_resolved(issue) ==
    {id \in DOMAIN View : /\ View[id].issue_type = issue.issue_type
                          /\ View[id].component = issue.component
                          /\ View[id].resolved}

\* the rows the SELECT of insert_issues orders: unresolved, same type and component
Matching(issue) ==
    {id \in DOMAIN View : /\ View[id].issue_type = issue.issue_type
                          /\ View[id].component = issue.component
                          /\ ~View[id].resolved}

\* insert_issues: the SELECT for the next issue and fetchone().  The first statement
\* opens the transaction, whose start time is what NOW() returns until the commit.
Select ==
    /\ pc = "select"
    /\ LET candidates == Matching(todo[1])
       IN IF candidates = {} THEN existing' = None
          ELSE \E id \in candidates :
                  /\ \A other \in candidates : View[other].last_seen <= View[id].last_seen
                  /\ existing' = Some([id |-> id, occurrence_count |-> View[id].occurrence_count])
    /\ now' = IF tx_obs = <<>> THEN now + 1 ELSE now
    /\ pc' = "write"
    /\ UNCHANGED <<envVars, conn, log_file, current_file, last_position, new_lines,
                   parsed_entries, todo, log_entries, issues, tx_writes, cycleVars, histVars>>

SelectFailed == pc = "select" /\ Raise

\* Updated without severity = %s in the SET clause
Updated_severity_kept(row, old_count, issue, at) ==
    [row EXCEPT !.last_seen = at,
                !.occurrence_count = old_count + issue.occurrence_count,
                !.description = issue.description]

\* Updated with occurrence_count = the new observation's count, the old count dropped
Updated_overwrite(row, old_count, issue, at) ==
    [row EXCEPT !.last_seen = at,
                !.occurrence_count = issue.occurrence_count,
                !.severity = issue.severity,
                !.description = issue.description]

\* the row after UPDATE issues SET last_seen = NOW(), occurrence_count = new_count,
\* severity = ..., description = ... WHERE id = issue_id
Updated(row, old_count, issue, at) ==
    LET new_count == old_count + issue.occurrence_count
    IN [row EXCEPT !.last_seen = at,
                   !.occurrence_count = new_count,
                   !.severity = issue.severity,
                   !.description = issue.description]

\* the row of INSERT INTO issues (...) VALUES (..., NOW(), NOW(), ...); resolved
\* takes the column's default
Inserted(issue, at) ==
    [issue_type       |-> issue.issue_type,
     severity         |-> issue.severity,
     description      |-> issue.description,
     component        |-> issue.component,
     first_seen       |-> at,
     last_seen        |-> at,
     occurrence_count |-> issue.occurrence_count,
     resolved         |-> FALSE]

\* insert_issues: the UPDATE of the fetched row, or the INSERT of a new one
Write ==
    /\ pc = "write"
    /\ LET issue == todo[1]
       IN IF existing # None
          THEN LET issue_id == Get(existing).id
               IN tx_writes' = Put(tx_writes, issue_id,
                                   Updated(View[issue_id], Get(existing).occurrence_count,
                                           issue, now))
          ELSE tx_writes' = Put(tx_writes, Cardinality(DOMAIN View) + 1, Inserted(issue, now))
    /\ tx_obs' = Append(tx_obs, todo[1])
    /\ todo' = Tail(todo)
    /\ existing' = None
    /\ pc' = IF todo' = <<>> THEN "commit" ELSE "select"
    /\ UNCHANGED <<envVars, conn, log_file, current_file, last_position, new_lines,
                   parsed_entries, log_entries, issues, now, cycleVars,
                   steps, ledger, resolved_pairs>>

WriteFailed == pc = "write" /\ Raise

\* the ledger after the reconciles of one committed transaction
RECURSIVE Record(_, _, _)
Record(led, obs, at) ==
    IF obs = <<>> THEN led
    ELSE LET p == Pair(obs[1])
             entry == IF p \in DOMAIN led
                      THEN [n           |-> led[p].n + 1,
                            sum         |-> led[p].sum + obs[1].occurrence_count,
                            first       |-> led[p].first,
                            last        |-> at,
                            severity    |-> obs[1].severity,
                            description |-> obs[1].description]
                      ELSE [n           |-> 1,
                            sum         |-> obs[1].occurrence_count,
                            first       |-> at,
                            last        |-> at,
                            severity    |-> obs[1].severity,
                            description |-> obs[1].description]
         IN Record(Put(led, p, entry), Tail(obs), at)

\* insert_issues: conn.commit(), and the return to main
Commit ==
    /\ pc = "commit"
    /\ issues' = View
    /\ tx_writes' = <<>>
    /\ ledger' = Record(ledger, tx_obs, now)
    /\ tx_obs' = <<>>
    /\ reconciled' = TRUE
    /\ detected' = TRUE
    /\ pc' = "sleep"
    /\ UNCHANGED <<envVars, conn, log_file, current_file, last_position, new_lines,
                   parsed_entries, todo, existing, log_entries, now,
                   switched, read_from, insert_failed, persisted,
                   steps, resolved_pairs>>

CommitFailed == pc = "commit" /\ Raise

\* time.sleep(5) and the next turn of while True.  The cycle's new_lines and
\* parsed_entries are dead from here on (the next cycle assigns them before it reads
\* them), and the history of the cycle ends.
Sleep ==
    /\ pc = "sleep"
    /\ pc' = "discover"
    /\ new_lines' = <<>>
    /\ parsed_entries' = <<>>
    /\ switched' = FALSE
    /\ read_from' = None
    /\ insert_failed' = FALSE
    /\ persisted' = FALSE
    /\ reconciled' = FALSE
    /\ detected' = FALSE
    /\ steps' = steps \cup {"sleep"}
    /\ UNCHANGED <<envVars, conn, log_file, current_file, last_position,
                   todo, existing, storeVars, tx_obs, ledger, resolved_pairs>>

\* Ctrl+C: KeyboardInterrupt is raised wherever main is inside the try; the handler
\* prints and finally: conn.close() drops the open transaction.  Between two cycles
\* it is taken in time.sleep: main does nothing between the sleep and
\* get_latest_log_file.
Interrupt ==
    /\ pc \in LoopPcs \ {"discover"}
    /\ pc' = "stopped"
    /\ conn' = "closed"
    /\ tx_writes' = <<>>
    /\ tx_obs' = <<>>
    /\ Exit
    /\ UNCHANGED <<envVars, log_entries, issues, now, cycleVars,
                   steps, ledger, resolved_pairs>>

Environment ==
    \/ \E f \in FileNames, line \in LineSet : WriteLine(f, line)
    \/ \E f \in FileNames, line \in LineSet, cut \in Cuts : WritePart(f, line, cut)
    \/ WriteRest
    \/ \E f \in FileNames : DeleteFile(f)
    \/ \E id \in DOMAIN issues : Resolve(id)

Next ==
    \/ Connect
    \/ Discover
    \/ Read
    \/ PersistCommitted
    \/ PersistFailed
    \/ Detect
    \/ Select
    \/ SelectFailed
    \/ Write
    \/ WriteFailed
    \/ Commit
    \/ CommitFailed
    \/ Sleep
    \/ Interrupt
    \/ Environment

Spec == Init /\ [][Next]_vars

(***************************************************************************)
(* PROPERTIES OF THE MAIN LOOP                                             *)
(***************************************************************************)

\* C1: in every state of the store, for every pair (issue type, component) at most
\* one issue of that pair is unresolved.
C1_OneUnresolvedPerPair ==
    \A a \in DOMAIN issues, b \in DOMAIN issues :
        (Pair(issues[a]) = Pair(issues[b]) /\ ~issues[a].resolved /\ ~issues[b].resolved)
            => a = b

\* an issue was resolved and the analyzer has created the next issue of its pair
C1_Witness ==
    \E a \in DOMAIN issues, b \in DOMAIN issues :
        /\ a # b
        /\ Pair(issues[a]) = Pair(issues[b])
        /\ issues[a].resolved
        /\ ~issues[b].resolved

\* C2: when the observations of a pair were reconciled in successful reconciles and
\* no issue of the pair was resolved, the store holds exactly one issue of the pair,
\* unresolved, whose occurrence_count is the sum of the observations' counts, whose
\* first_seen is the time of the first reconcile and whose last_seen is the time of
\* the latest.
C2_MergeSums ==
    \A p \in DOMAIN ledger \ resolved_pairs :
        \E id \in DOMAIN issues :
            /\ Pair(issues[id]) = p
            /\ \A other \in DOMAIN issues : Pair(issues[other]) = p => other = id
            /\ ~issues[id].resolved
            /\ issues[id].occurrence_count = ledger[p].sum
            /\ issues[id].first_seen = ledger[p].first
            /\ issues[id].last_seen = ledger[p].last

\* two reconciles of one pair at different times, none of its issues resolved
C2_Witness ==
    \E p \in DOMAIN ledger \ resolved_pairs :
        /\ ledger[p].n >= 2
        /\ ledger[p].first < ledger[p].last
        /\ \E id \in DOMAIN issues : Pair(issues[id]) = p /\ issues[id].first_seen < issues[id].last_seen

\* C3: a failure of a persistence call does not end the loop: the process is never
\* ended by an exception of a store call.
C3_LoopSurvivesFailure == pc # "crashed"

\* C4: in a cycle whose bulk insert failed, none of the batch's records is persisted
\* and no issue is reconciled from the batch.
C4_FailedBatchDropped == insert_failed => (~persisted /\ ~reconciled)

\* C5: a persisted record never holds only a part of a line: once the writer has
\* completed every line it began, each persisted record is the parse of a whole line
\* it wrote.
C5_NoPartialRecord ==
    wrest = None =>
        \A i \in DOMAIN log_entries :
            \E l \in complete_lines : parse_log_line(l) = Some(log_entries[i])

\* C7: in a cycle that discovers a log file other than the tracked one, the found
\* file is tracked and the read of the cycle starts at offset 0.
C7_RotationReset ==
    /\ (pc = "read" /\ switched) => (current_file = log_file /\ last_position = 0)
    /\ (switched /\ read_from # None) => read_from = Some(0)

\* the analyzer had read File_A past offset 0, and reads the newer File_B from 0
C7_Witness ==
    /\ switched
    /\ read_from = Some(0)
    /\ current_file = Some(File_B)
    /\ log_entries # <<>>
    /\ new_lines # <<>>

\* C8: the loop stops between two cycles only: when it has stopped, a batch whose
\* records were persisted has had its issues detected and reconciled.
C8_StopsBetweenCycles == pc = "stopped" => (persisted => detected)

\* C9: without a connection the analyzer ends before the loop: it never discovers,
\* reads or sleeps.
C9_NoLoopWithoutConnection == conn = "none" => (pc = "exited" /\ steps = {})

\* the connection could not be opened
C9_Witness == conn = "none" /\ pc = "exited"

(***************************************************************************)
(* TAILING ONE FILE                                                        *)
(* The writer appends complete lines to File_A and the analyzer reads it   *)
(* with tail_file from the offset the read before returned; nothing else   *)
(* changes.                                                                *)
(***************************************************************************)
\* the lines the writer appends in one run
MaxAppends == 3

Line_Short == <<"x">>

TailLineSet == LineSet \cup {Line_Short, <<>>}

\* File_A exists and is empty; current_file = File_A, last_position = 0
TailInit ==
    /\ dir = (File_A :> <<>>)
    /\ wrest = None
    /\ nwrites = 0
    /\ pc = "tail"
    /\ conn = "open"
    /\ log_file = Some(File_A)
    /\ current_file = Some(File_A)
    /\ last_position = 0
    /\ new_lines = <<>>
    /\ parsed_entries = <<>>
    /\ todo = <<>>
    /\ existing = None
    /\ log_entries = <<>>
    /\ issues = <<>>
    /\ tx_writes = <<>>
    /\ now = 0
    /\ complete_lines = {}
    /\ steps = {}
    /\ switched = FALSE
    /\ read_from = None
    /\ insert_failed = FALSE
    /\ persisted = FALSE
    /\ reconciled = FALSE
    /\ detected = FALSE
    /\ tx_obs = <<>>
    /\ ledger = <<>>
    /\ resolved_pairs = {}
    /\ appended = <<>>
    /\ expected = <<>>

\* f.write(log_entry + "\n"); f.flush()
TailAppend(line) ==
    /\ pc = "tail"
    /\ nwrites < MaxAppends
    /\ nwrites' = nwrites + 1
    /\ dir' = Put(dir, File_A, ContentOf(dir, File_A) \o line \o <<NL>>)
    /\ appended' = Append(appended, line \o <<NL>>)
    /\ UNCHANGED <<wrest, complete_lines, expected, loopVars, storeVars, cycleVars, histVars>>

\* new_lines, last_position = tail_file(log_file, last_position)
TailRead ==
    /\ pc = "tail"
    /\ LET r == tail_file(dir, Get(log_file), last_position)
       IN /\ new_lines' = r.new_lines
          /\ last_position' = r.new_position
    /\ read_from' = Some(last_position)
    /\ expected' = appended
    /\ appended' = <<>>
    /\ UNCHANGED <<dir, wrest, nwrites, complete_lines, pc, conn, log_file, current_file,
                   parsed_entries, todo, existing, storeVars,
                   switched, insert_failed, persisted, reconciled, detected, histVars>>

TailNext ==
    \/ \E line \in TailLineSet : TailAppend(line)
    \/ TailRead

SpecTail == TailInit /\ [][TailNext]_vars

\* C6: a read from the offset the read before returned returns exactly the lines
\* appended since, in order; the offset it returns is greater than the one it was
\* given when lines were appended and equal to it when none was.
C6_TailResumes ==
    read_from # None =>
        /\ new_lines = expected
        /\ expected # <<>> => last_position > Get(read_from)
        /\ expected = <<>> => last_position = Get(read_from)

\* a read from an offset past 0 that returned two lines or more
C6_Witness ==
    /\ read_from # None
    /\ Get(read_from) > 0
    /\ Len(expected) >= 2
    /\ new_lines = expected

(***************************************************************************)
(* DETECTION ON ONE BATCH                                                  *)
(* detect_issues is applied to batches of the records of two components:   *)
(* total_count records of Database of which error_count have level ERROR,  *)
(* and up to MaxOther records of API.                                      *)
(***************************************************************************)
\* every total_count up to MaxBatch, and the batch of ExampleBatch records
MaxBatch == 20

ExampleBatch == 100

MaxOther == 2

BatchSizes == (1 .. MaxBatch) \cup {ExampleBatch}

Entry_DbError == Get(parse_log_line(Line_DbTimeout))

Entry_DbInfo == [Entry_DbError EXCEPT !.level = <<"I", "N", "F", "O">>]

Entry_ApiInfo == Get(parse_log_line(Line_ApiOk))

Entry_ApiError == [Entry_ApiInfo EXCEPT !.level = Str_ERROR]

\* n copies of one record
Copies(entry, n) == [i \in 1 .. n |-> entry]

Batch(total_count, error_count, other_count, other_errors) ==
    Copies(Entry_ApiError, other_errors)
        \o Copies(Entry_DbInfo, total_count - error_count)
        \o Copies(Entry_ApiInfo, other_count - other_errors)
        \o Copies(Entry_DbError, error_count)

Batches ==
    UNION {UNION {{Batch(n, e, m, f) : e \in 0 .. n, f \in 0 .. m} : m \in 0 .. MaxOther}
               : n \in BatchSizes}

\* main has parsed a batch and persisted it
DetectInit ==
    /\ dir = (File_Other :> <<>>)
    /\ wrest = None
    /\ nwrites = 0
    /\ pc = "detect"
    /\ conn = "open"
    /\ log_file = None
    /\ current_file = None
    /\ last_position = 0
    /\ new_lines = <<>>
    /\ parsed_entries \in Batches
    /\ todo = <<>>
    /\ existing = None
    /\ log_entries = <<>>
    /\ issues = <<>>
    /\ tx_writes = <<>>
    /\ now = 0
    /\ complete_lines = {}
    /\ steps = {}
    /\ switched = FALSE
    /\ read_from = None
    /\ insert_failed = FALSE
    /\ persisted = TRUE
    /\ reconciled = FALSE
    /\ detected = FALSE
    /\ tx_obs = <<>>
    /\ ledger = <<>>
    /\ resolved_pairs = {}
    /\ appended = <<>>
    /\ expected = <<>>

DetectNext == Detect

SpecDetect == DetectInit /\ [][DetectNext]_vars

\* the observations of High Error Rate that detect_issues made for a component
RateObservations(component) ==
    {j \in DOMAIN todo : /\ todo[j].issue_type = "High Error Rate"
                         /\ todo[j].component = component}

\* C10: for every component of a batch with n records of which e have level ERROR,
\* detection makes a High Error Rate observation exactly when e/n exceeds 10%: one
\* observation, with occurrence count e, of severity HIGH when e/n exceeds 20% and
\* MEDIUM otherwise.
C10_HighErrorRate ==
    pc \in {"select", "sleep"} =>
        \A c \in {parsed_entries[i].component : i \in DOMAIN parsed_entries} :
            LET of_c == {i \in DOMAIN parsed_entries : parsed_entries[i].component = c}
                n    == Cardinality(of_c)
                e    == Cardinality({i \in of_c : parsed_entries[i].level = Str_ERROR})
            IN IF 100 * e > 10 * n
               THEN \E j \in DOMAIN todo :
                       /\ RateObservations(c) = {j}
                       /\ todo[j].occurrence_count = e
                       /\ todo[j].severity = IF 100 * e > 20 * n THEN "HIGH" ELSE "MEDIUM"
               ELSE RateObservations(c) = {}

\* a batch with one component at exactly 10% (no observation) and the other above 20%
C10_Witness ==
    /\ pc = "select"
    /\ \E c \in {parsed_entries[i].component : i \in DOMAIN parsed_entries} :
          LET of_c == {i \in DOMAIN parsed_entries : parsed_entries[i].component = c}
              e    == Cardinality({i \in of_c : parsed_entries[i].level = Str_ERROR})
          IN e > 0 /\ 100 * e = 10 * Cardinality(of_c) /\ RateObservations(c) = {}
    /\ \E j \in DOMAIN todo : todo[j].issue_type = "High Error Rate" /\ todo[j].severity = "HIGH"

(***************************************************************************)
(* THE HEURISTICS ON ONE BATCH                                             *)
(* detect_issues is applied to the batches made of up to MaxAuth records   *)
(* of Line_AuthFailed, up to MaxSlow of Line_DbSlow, and at most one of    *)
(* each other line below, parsed by parse_log_line.                        *)
(***************************************************************************)
\* 2024-01-01 10:00:00 ERROR [Auth] Login failed
Line_AuthFailed == Str_stamp \o <<" ">> \o
    <<"E", "R", "R", "O", "R", " ", "[", "A", "u", "t", "h", "]", " ", "L", "o", "g", "i", "n",
      " ", "f", "a", "i", "l", "e", "d">>

\* 2024-01-01 10:00:00 ERROR [Auth] INVALID token
Line_AuthInvalid == Str_stamp \o <<" ">> \o
    <<"E", "R", "R", "O", "R", " ", "[", "A", "u", "t", "h", "]", " ", "I", "N", "V", "A", "L",
      "I", "D", " ", "t", "o", "k", "e", "n">>

\* 2024-01-01 10:00:00 WARN [Auth] Login failed
Line_AuthWarn == Str_stamp \o <<" ">> \o
    <<"W", "A", "R", "N", " ", "[", "A", "u", "t", "h", "]", " ", "L", "o", "g", "i", "n", " ",
      "f", "a", "i", "l", "e", "d">>

\* 2024-01-01 10:00:00 ERROR [Auth] Locked
Line_AuthOther == Str_stamp \o <<" ">> \o
    <<"E", "R", "R", "O", "R", " ", "[", "A", "u", "t", "h", "]", " ", "L", "o", "c", "k", "e",
      "d">>

\* 2024-01-01 10:00:00 ERROR [API] Request failed
Line_ApiFailed == Str_stamp \o <<" ">> \o
    <<"E", "R", "R", "O", "R", " ", "[", "A", "P", "I", "]", " ", "R", "e", "q", "u", "e", "s",
      "t", " ", "f", "a", "i", "l", "e", "d">>

\* 2024-01-01 10:00:00 INFO [Database] Query took 3001ms
Line_DbSlow == Str_stamp \o <<" ">> \o
    <<"I", "N", "F", "O", " ", "[", "D", "a", "t", "a", "b", "a", "s", "e", "]", " ", "Q", "u",
      "e", "r", "y", " ", "t", "o", "o", "k", " ", "3", "0", "0", "1", "m", "s">>

\* 2024-01-01 10:00:00 INFO [API] took 3000ms
Line_ApiNotSlow == Str_stamp \o <<" ">> \o
    <<"I", "N", "F", "O", " ", "[", "A", "P", "I", "]", " ", "t", "o", "o", "k", " ", "3", "0",
      "0", "0", "m", "s">>

\* 2024-01-01 10:00:00 ERROR [Auth] failed after 5000ms
Line_AuthSlow == Str_stamp \o <<" ">> \o
    <<"E", "R", "R", "O", "R", " ", "[", "A", "u", "t", "h", "]", " ", "f", "a", "i", "l", "e",
      "d", " ", "a", "f", "t", "e", "r", " ", "5", "0", "0", "0", "m", "s">>

MaxAuth == 7

MaxSlow == 2

Entry(line) == Get(parse_log_line(line))

Entry_AuthFailed == Entry(Line_AuthFailed)

Entry_AuthInvalid == Entry(Line_AuthInvalid)

Entry_AuthWarn == Entry(Line_AuthWarn)

Entry_AuthOther == Entry(Line_AuthOther)

Entry_ApiFailed == Entry(Line_ApiFailed)

Entry_DbSlow == Entry(Line_DbSlow)

Entry_ApiNotSlow == Entry(Line_ApiNotSlow)

Entry_AuthSlow == Entry(Line_AuthSlow)

\* the records a batch holds at most one of
SingleEntries == <<Entry_AuthInvalid, Entry_AuthWarn, Entry_AuthOther, Entry_ApiFailed,
                   Entry_ApiNotSlow, Entry_AuthSlow, Entry_DbError>>

HeuristicBatches ==
    {Copies(Entry_AuthFailed, a) \o SelectSeq(SingleEntries, LAMBDA e : e \in chosen)
         \o Copies(Entry_DbSlow, s) :
       a \in 0 .. MaxAuth, s \in 0 .. MaxSlow, chosen \in SUBSET Range(SingleEntries)}
        \ {<<>>}

\* main has parsed a batch and persisted it
HeuristicInit ==
    /\ dir = (File_Other :> <<>>)
    /\ wrest = None
    /\ nwrites = 0
    /\ pc = "detect"
    /\ conn = "open"
    /\ log_file = None
    /\ current_file = None
    /\ last_position = 0
    /\ new_lines = <<>>
    /\ parsed_entries \in HeuristicBatches
    /\ todo = <<>>
    /\ existing = None
    /\ log_entries = <<>>
    /\ issues = <<>>
    /\ tx_writes = <<>>
    /\ now = 0
    /\ complete_lines = {}
    /\ steps = {}
    /\ switched = FALSE
    /\ read_from = None
    /\ insert_failed = FALSE
    /\ persisted = TRUE
    /\ reconciled = FALSE
    /\ detected = FALSE
    /\ tx_obs = <<>>
    /\ ledger = <<>>
    /\ resolved_pairs = {}
    /\ appended = <<>>
    /\ expected = <<>>

SpecHeuristics == HeuristicInit /\ [][DetectNext]_vars

\* the places of the batch that hold one of the records
Holding(entries) == {i \in DOMAIN parsed_entries : parsed_entries[i] \in entries}

\* the observations of one issue type that detect_issues made
Observations(issue_type) == {j \in DOMAIN todo : todo[j].issue_type = issue_type}

\* C11: with c the number of ERROR records of component Auth whose message contains
\* "failed" or "invalid" in any case, detection makes no Authentication Failures
\* observation when c <= 5 and exactly one, of severity HIGH and occurrence count c,
\* when c > 5.
C11_AuthThreshold ==
    pc \in {"select", "sleep"} =>
        LET c == Cardinality(Holding({Entry_AuthFailed, Entry_AuthInvalid, Entry_AuthSlow}))
        IN IF c > 5
           THEN \E j \in DOMAIN todo :
                   /\ Observations("Authentication Failures") = {j}
                   /\ todo[j].severity = "HIGH"
                   /\ todo[j].occurrence_count = c
                   /\ todo[j].component = Str_Auth
           ELSE Observations("Authentication Failures") = {}

\* a batch of exactly 6 matching records, one of them with INVALID in capitals, next
\* to records that do not match
C11_Witness ==
    /\ pc = "select"
    /\ Holding({Entry_AuthWarn, Entry_AuthOther, Entry_ApiFailed}) # {}
    /\ Holding({Entry_AuthInvalid}) # {}
    /\ Cardinality(Holding({Entry_AuthFailed, Entry_AuthInvalid, Entry_AuthSlow})) = 6
    /\ Observations("Authentication Failures") # {}

\* C12 as stated: the output of detection for one batch never holds two observations
\* of the same issue type.
C12_OnePerType ==
    pc \in {"select", "sleep"} =>
        \A j \in DOMAIN todo, k \in DOMAIN todo :
            todo[j].issue_type = todo[k].issue_type => j = k

\* C12 amended: Database Timeout, Slow Response Time and Authentication Failures are
\* observed at most once in a batch and High Error Rate at most once for a component,
\* so the output never holds two observations of the same issue type and component.
C12_OnePerPair ==
    pc \in {"select", "sleep"} =>
        /\ \A j \in DOMAIN todo, k \in DOMAIN todo : Pair(todo[j]) = Pair(todo[k]) => j = k
        /\ \A t \in {"Database Timeout", "Slow Response Time", "Authentication Failures"} :
              Cardinality(Observations(t)) <= 1

\* a batch for which all four heuristics fire, High Error Rate for two components
C12_Witness ==
    /\ pc = "select"
    /\ Cardinality(Observations("High Error Rate")) >= 2
    /\ Observations("Database Timeout") # {}
    /\ Observations("Slow Response Time") # {}
    /\ Observations("Authentication Failures") # {}

(***************************************************************************)
(* PARSING ONE LINE                                                        *)
(* main parses one line that tail_file returned.  The lines are put        *)
(* together from parts, so that which of them are of the form              *)
(*     TIMESTAMP LEVEL [COMPONENT] MESSAGE                                 *)
(* is known from the parts.                                                *)
(***************************************************************************)
Stamps == {Str_stamp}

BadStamps == {<<"2", "0", "2", "4", "-", "0", "1", "-", "0", "1">>, <<"2", "0", "2", "4", "-", "1", "-", "0", "1", " ", "1", "0", ":", "0", "0", ":", "0", "0">>}

Gaps == {<<" ">>, <<" ", " ">>}

Levels == {<<"I", "N", "F", "O">>, <<"E", "_", "1">>}

BadLevels == {<<>>, <<"I", "N", "-", "F", "O">>}

Components == {<<"A", "P", "I">>, <<"A", " ", "P">>}

Messages == {<<"o", "k">>, <<"t", "o", "o", "k", " ", "1", "2", "m", "s">>, <<"a", "]", "b", " ", "u", "s", "e", "r", "_", "i", "d", "=", "7">>}

Ends == {<<>>, <<NL>>}

Compose(stamp, gap1, level, gap2, bracketed, gap3, message, end) ==
    stamp \o gap1 \o level \o gap2 \o bracketed \o gap3 \o message \o end

Bracketed(component) == <<"[">> \o component \o <<"]">>

\* the lines of the form TIMESTAMP LEVEL [COMPONENT] MESSAGE
GrammaticalLines ==
    {Compose(stamp, gap, level, <<" ">>, Bracketed(component), gap, message, end) :
        stamp \in Stamps, gap \in Gaps, level \in Levels, component \in Components,
        message \in Messages, end \in Ends}

\* the lines with one part missing or malformed
UngrammaticalLines ==
    {Compose(stamp, <<" ">>, level, <<" ">>, Bracketed(component), <<" ">>, message, <<NL>>) :
        stamp \in BadStamps, level \in Levels, component \in Components, message \in Messages}
    \cup
    {Compose(Str_stamp, <<" ">>, level, <<" ">>, Bracketed(component), <<" ">>, message, <<NL>>) :
        level \in BadLevels, component \in Components, message \in Messages}
    \cup
    {Compose(Str_stamp, <<" ">>, level, <<" ">>, bracketed, <<" ">>, message, <<NL>>) :
        level \in Levels, bracketed \in {<<"[", "]">>} \cup Components, message \in Messages}
    \cup
    {Compose(Str_stamp, gap1, level, gap2, Bracketed(component), gap3, message, <<NL>>) :
        gap1 \in {<<>>, <<" ">>}, gap2 \in {<<>>, <<" ">>}, gap3 \in {<<>>},
        level \in Levels, component \in Components, message \in Messages}
    \cup
    {Compose(Str_stamp, <<" ">>, level, <<" ">>, Bracketed(component), gap, <<>>, end) :
        gap \in {<<>>} \cup Gaps, level \in Levels, component \in Components, end \in Ends}
    \cup {<<>>, <<NL>>}

\* 2024-01-01 10:00:00 INFO [API] took 11...1ms, with one digit more than int() converts
Line_LongTime ==
    Compose(Str_stamp, <<" ">>, <<"I", "N", "F", "O">>, <<" ">>, Bracketed(Str_API), <<" ">>,
            <<"t", "o", "o", "k", " ">> \o [i \in 1 .. int_max_str_digits + 1 |-> "1"] \o <<"m", "s">>,
            <<NL>>)

ParseLines == GrammaticalLines \cup UngrammaticalLines \cup {Line_LongTime}

\* tail_file has returned one line
ParseInit ==
    /\ dir = (File_Other :> <<>>)
    /\ wrest = None
    /\ nwrites = 0
    /\ pc = "parse"
    /\ conn = "open"
    /\ log_file = None
    /\ current_file = None
    /\ last_position = 0
    /\ new_lines \in {<<line>> : line \in ParseLines}
    /\ parsed_entries = <<>>
    /\ todo = <<>>
    /\ existing = None
    /\ log_entries = <<>>
    /\ issues = <<>>
    /\ tx_writes = <<>>
    /\ now = 0
    /\ complete_lines = {}
    /\ steps = {}
    /\ switched = FALSE
    /\ read_from = None
    /\ insert_failed = FALSE
    /\ persisted = FALSE
    /\ reconciled = FALSE
    /\ detected = FALSE
    /\ tx_obs = <<>>
    /\ ledger = <<>>
    /\ resolved_pairs = {}
    /\ appended = <<>>
    /\ expected = <<>>

\* for line in new_lines: parsed = parse_log_line(line); if parsed: parsed_entries.append
\* (parsed).  The ValueError of int() is caught nowhere.
ParseLine ==
    /\ pc = "parse"
    /\ IF \E i \in DOMAIN new_lines : parse_raises(new_lines[i])
       THEN pc' = "crashed" /\ conn' = "closed" /\ UNCHANGED parsed_entries
       ELSE pc' = "parsed" /\ parsed_entries' = parse_lines(new_lines) /\ UNCHANGED conn
    /\ UNCHANGED <<envVars, log_file, current_file, last_position, new_lines, todo, existing,
                   storeVars, cycleVars, histVars>>

ParseNext == ParseLine

SpecParse == ParseInit /\ [][ParseNext]_vars

\* C13: parse_log_line never raises; of a line of the form TIMESTAMP LEVEL [COMPONENT]
\* MESSAGE it returns a record with non-empty level, component and message, and of
\* any other line it returns None.
C13_ParseTotal ==
    /\ pc # "crashed"
    /\ pc = "parsed" =>
          IF new_lines[1] \in GrammaticalLines \cup {Line_LongTime}
          THEN /\ Len(parsed_entries) = 1
               /\ parsed_entries[1].level # <<>>
               /\ parsed_entries[1].component # <<>>
               /\ parsed_entries[1].message # <<>>
          ELSE parsed_entries = <<>>

(***************************************************************************)
(* RECONCILING THE ISSUES OF SUCCESSIVE BATCHES                            *)
(* detect_issues is called on one batch after the other, no call of the    *)
(* store fails, and the operator resolves issues in between.  The batches  *)
(* are chosen so that the observations of one pair differ in severity,     *)
(* description and count from one batch to the next.                       *)
(***************************************************************************)
\* the calls of detect_issues in one run
MaxReconciles == 3

StoreBatches ==
    {Copies(Entry_DbError, 1),
     Copies(Entry_DbError, 6),
     Copies(Entry_DbError, 1) \o Copies(Entry_DbInfo, 5),
     Copies(Entry_ApiError, 1) \o Copies(Entry_ApiInfo, 5),
     Copies(Entry_DbSlow, 1),
     Copies(Entry_AuthSlow, 1) \o Copies(Entry_DbSlow, 1) \o Copies(Entry_ApiInfo, 8),
     Copies(Entry_ApiNotSlow, 1) \o Copies(Entry_ApiError, 1)}

\* main is between two cycles and the store is empty
StoreInit ==
    /\ dir = (File_Other :> <<>>)
    /\ wrest = None
    /\ nwrites = 0
    /\ pc = "sleep"
    /\ conn = "open"
    /\ log_file = None
    /\ current_file = None
    /\ last_position = 0
    /\ new_lines = <<>>
    /\ parsed_entries = <<>>
    /\ todo = <<>>
    /\ existing = None
    /\ log_entries = <<>>
    /\ issues = <<>>
    /\ tx_writes = <<>>
    /\ now = 0
    /\ complete_lines = {}
    /\ steps = {}
    /\ switched = FALSE
    /\ read_from = None
    /\ insert_failed = FALSE
    /\ persisted = FALSE
    /\ reconciled = FALSE
    /\ detected = FALSE
    /\ tx_obs = <<>>
    /\ ledger = <<>>
    /\ resolved_pairs = {}
    /\ appended = <<>>
    /\ expected = <<>>

\* detect_issues(conn, parsed_entries) of the next cycle whose batch has records, up to
\* its call of insert_issues
DetectCall(batch) ==
    /\ pc = "sleep"
    /\ now < MaxReconciles
    /\ parsed_entries' = batch
    /\ todo' = issues_to_insert(batch)
    /\ pc' = IF todo' = <<>> THEN "sleep" ELSE "select"
    /\ UNCHANGED <<envVars, conn, log_file, current_file, last_position, new_lines, existing,
                   storeVars, cycleVars, histVars>>

StoreNext ==
    \/ \E batch \in StoreBatches : DetectCall(batch)
    \/ Select
    \/ Write
    \/ Commit
    \/ \E id \in DOMAIN issues : Resolve(id)

SpecStore == StoreInit /\ [][StoreNext]_vars

\* C14: the unresolved issue of a pair has the severity and the description of the
\* latest observation reconciled for the pair, whatever the severities before it.
C14_LastSeverityWins ==
    \A p \in DOMAIN ledger \ resolved_pairs :
        \A id \in DOMAIN issues :
            (Pair(issues[id]) = p /\ ~issues[id].resolved) =>
                /\ issues[id].severity = ledger[p].severity
                /\ issues[id].description = ledger[p].description

\* a Database Timeout observation of severity HIGH was merged after a CRITICAL one of
\* 6 timeouts: the issue counts both and is HIGH
C14_Witness ==
    \E id \in DOMAIN issues :
        LET p == Pair(issues[id])
        IN /\ issues[id].issue_type = "Database Timeout"
           /\ ~issues[id].resolved
           /\ p \in DOMAIN ledger \ resolved_pairs
           /\ ledger[p].n = 2
           /\ issues[id].occurrence_count = 7
           /\ issues[id].severity = "HIGH"

(***************************************************************************)
(* MORE PROPERTIES OF THE MAIN LOOP                                        *)
(***************************************************************************)
\* the detector has run in the current cycle
DetectorRan == pc \in {"select", "write", "commit"} \/ detected

\* C15 (persist before detect): whenever the detector has run in a cycle, the records
\* of the cycle's batch are persisted.
C15_PersistedBeforeDetect == DetectorRan => persisted

\* C15 (the batch): the records given to the bulk insert and to the detector are the
\* parse of the lines read in this cycle, and nothing runs when none of them parses.
C15_OnlyThisBatch ==
    /\ pc \in {"persist", "detect"} =>
          (parsed_entries = parse_lines(new_lines) /\ parsed_entries # <<>>)
    /\ (pc = "select" /\ tx_obs = <<>>) => todo = issues_to_insert(parse_lines(new_lines))
    /\ (pc \in LoopPcs /\ read_from # None /\ parsed_entries = <<>>) =>
          (pc = "sleep" /\ ~persisted /\ ~insert_failed /\ ~DetectorRan)

\* C15 (reconciled before the next read): when a cycle reads, no observation of an
\* earlier cycle is left to reconcile and no transaction is open.
C15_ReconciledBeforeRead == pc = "read" => (todo = <<>> /\ tx_obs = <<>> /\ tx_writes = <<>>)

\* C15: in every cycle the batch is persisted before the detector runs, the detector
\* is given exactly the records parsed in the cycle, its observations are reconciled
\* before the next read, and nothing runs when no line parses.
C15_CycleOrder ==
    /\ C15_PersistedBeforeDetect
    /\ C15_OnlyThisBatch
    /\ C15_ReconciledBeforeRead

\* C16: a cycle whose discovery finds no file goes to the sleep with no read, persist
\* or detect step and with the tracked path and offset as they were; and a read of a
\* path that is gone returns no lines and the offset it was given.
C16_MissingFile ==
    [][/\ (pc = "discover" /\ pc' # "discover" /\ get_latest_log_file(dir) = None) =>
              /\ pc' = "sleep"
              /\ current_file' = current_file
              /\ last_position' = last_position
              /\ read_from' = None /\ ~persisted' /\ ~insert_failed' /\ ~DetectorRan'
              /\ log_entries' = log_entries /\ issues' = issues
       /\ (pc = "read" /\ read_from' # None /\ Get(log_file) \notin DOMAIN dir) =>
              /\ new_lines' = <<>>
              /\ last_position' = last_position
              /\ current_file' = current_file
              /\ pc' = "sleep"]_vars

\* discovery has found no file while app_1.log, read up to an offset past 0, is tracked
C16_Witness ==
    /\ pc = "sleep"
    /\ log_file = None
    /\ current_file = Some(File_A)
    /\ last_position > 0
    /\ read_from = None

\* C17: a commit of insert_issues leaves every resolved issue as it was and resolves
\* none, and for every observation it reconciled whose pair had no unresolved issue
\* it has created an unresolved issue with first_seen = last_seen = now and the
\* observation's count.
C17_ResolvedUntouched ==
    [][(pc = "commit" /\ pc' = "sleep") =>
          /\ \A id \in DOMAIN issues :
                IF issues[id].resolved THEN issues'[id] = issues[id]
                ELSE ~issues'[id].resolved
          /\ \A k \in DOMAIN tx_obs :
                (\A id \in DOMAIN issues : Pair(issues[id]) = Pair(tx_obs[k]) => issues[id].resolved)
                    => \E id \in DOMAIN issues' \ DOMAIN issues :
                          /\ Pair(issues'[id]) = Pair(tx_obs[k])
                          /\ ~issues'[id].resolved
                          /\ issues'[id].first_seen = now
                          /\ issues'[id].last_seen = now
                          /\ issues'[id].occurrence_count = tx_obs[k].occurrence_count]_vars

\* C19: no line is read and persisted more than once.  Every line the writer writes
\* gives one record at most, so the records persisted are never more than the lines
\* written.
C19_NoLineTwice == Len(log_entries) <= nwrites

\* a step of the operator, or none, leaves every issue as it is but for its flag
OnlyResolved ==
    /\ DOMAIN issues' = DOMAIN issues
    /\ \A id \in DOMAIN issues : [issues'[id] EXCEPT !.resolved = issues[id].resolved] = issues[id]

\* C21: the reconciliation of a batch's observations is all or nothing.  No step but
\* the commit after the last observation changes an issue of the store or adds one
\* (the operator's flag apart); a failure or an interruption inside insert_issues
\* leaves the store as it was and drops what the transaction wrote; and the commit
\* makes every row written for the batch's observations, one for each, visible.
C21_AllOrNothing ==
    [][/\ (pc = "commit" /\ pc' = "sleep") =>
             /\ tx_obs = issues_to_insert(parsed_entries)
             /\ Cardinality(DOMAIN tx_writes) = Len(tx_obs)
             /\ \A id \in DOMAIN tx_writes :
                    id \in DOMAIN issues' /\ issues'[id] = tx_writes[id]
             /\ \A id \in DOMAIN issues \ DOMAIN tx_writes : issues'[id] = issues[id]
             /\ tx_writes' = <<>>
       /\ ~(pc = "commit" /\ pc' = "sleep") => OnlyResolved
       /\ (pc \in {"select", "write", "commit"} /\ pc' \in {"crashed", "stopped"}) =>
             /\ issues' = issues
             /\ tx_writes' = <<>>
             /\ conn' = "closed"]_vars

\* part-way through a batch: the transaction has merged the batch's first observation
\* into an issue of the store, the second is still to be reconciled, and the store
\* shows the issue as it was
C21_Witness ==
    /\ pc = "select"
    /\ Len(tx_obs) = 1
    /\ Len(todo) = 1
    /\ \E id \in DOMAIN tx_writes \cap DOMAIN issues :
          /\ tx_writes[id].occurrence_count = 2
          /\ issues[id].occurrence_count = 1
          /\ issues[id].last_seen < tx_writes[id].last_seen

(***************************************************************************)
(* MORE PROPERTIES OF THE RECONCILES                                       *)
(***************************************************************************)
SlowPair == <<"Slow Response Time", Str_API>>

\* C18: with s the number of records of a batch, of any level and component, whose
\* response time exceeds 3000 ms, detection makes a Slow Response Time observation
\* exactly when s >= 1: one, of severity MEDIUM, occurrence count s and component API;
\* so every Slow Response Time issue of the store has component API, and the
\* unresolved one counts the slow records of all components.
C18_SlowResponses ==
    /\ (pc = "select" /\ tx_obs = <<>>) =>
          LET s == Cardinality(Holding({Entry_DbSlow, Entry_AuthSlow}))
          IN IF s >= 1
             THEN \E j \in DOMAIN todo :
                     /\ Observations("Slow Response Time") = {j}
                     /\ todo[j].severity = "MEDIUM"
                     /\ todo[j].occurrence_count = s
                     /\ todo[j].component = Str_API
             ELSE Observations("Slow Response Time") = {}
    /\ \A id \in DOMAIN issues :
          issues[id].issue_type = "Slow Response Time" => issues[id].component = Str_API
    /\ SlowPair \in DOMAIN ledger \ resolved_pairs =>
          \E id \in DOMAIN issues :
              /\ Pair(issues[id]) = SlowPair
              /\ ~issues[id].resolved
              /\ issues[id].occurrence_count = ledger[SlowPair].sum

\* the slow records of Database and of Auth, of two batches, are counted by one issue
\* of component API
C18_Witness ==
    /\ SlowPair \in DOMAIN ledger \ resolved_pairs
    /\ ledger[SlowPair].n = 2
    /\ \E id \in DOMAIN issues :
          /\ Pair(issues[id]) = SlowPair
          /\ ~issues[id].resolved
          /\ issues[id].occurrence_count = 3
    /\ pc = "select" /\ tx_obs = <<>>
    /\ Holding({Entry_ApiNotSlow}) # {}
    /\ Observations("Slow Response Time") = {}

(***************************************************************************)
(* THE LOOP KEPT RUNNING                                                   *)
(* main connected, nothing fails and nobody interrupts it or removes a     *)
(* file; the writer appends whole lines, each to the file that is the      *)
(* greatest log file when the line is written (a new file has a later      *)
(* timestamp in its name than every file before it).  "while True" with a  *)
(* sleep of CHECK_INTERVAL seconds takes its next step whenever it has     *)
(* one: weak fairness of the loop's steps.                                 *)
(***************************************************************************)
\* lines the writer appends in one run of the loop that is kept running
MaxLiveWrites == 3

LiveInit ==
    /\ dir = (File_Other :> <<>>)
    /\ wrest = None
    /\ nwrites = 0
    /\ pc = "discover"
    /\ conn = "open"
    /\ log_file = None
    /\ current_file = None
    /\ last_position = 0
    /\ new_lines = <<>>
    /\ parsed_entries = <<>>
    /\ todo = <<>>
    /\ existing = None
    /\ log_entries = <<>>
    /\ issues = <<>>
    /\ tx_writes = <<>>
    /\ now = 0
    /\ complete_lines = {}
    /\ steps = {}
    /\ switched = FALSE
    /\ read_from = None
    /\ insert_failed = FALSE
    /\ persisted = FALSE
    /\ reconciled = FALSE
    /\ detected = FALSE
    /\ tx_obs = <<>>
    /\ ledger = <<>>
    /\ resolved_pairs = {}
    /\ appended = <<>>
    /\ expected = <<>>

\* f.write(log_entry + "\n"); f.flush() to the file that is the greatest log file
AppendLine(f, line) ==
    /\ BeforeDiscovery
    /\ nwrites < MaxLiveWrites
    /\ get_latest_log_file(Put(dir, f, ContentOf(dir, f))) = Some(f)
    /\ dir' = Put(dir, f, ContentOf(dir, f) \o line \o <<NL>>)
    /\ complete_lines' = complete_lines \cup {line \o <<NL>>}
    /\ nwrites' = nwrites + 1
    /\ UNCHANGED <<tailVars, wrest, loopVars, storeVars, cycleVars, histVars>>

\* a step of the loop, none of its calls failing
LiveLoop ==
    \/ Discover
    \/ Read
    \/ PersistCommitted
    \/ Detect
    \/ Select
    \/ Write
    \/ Commit
    \/ Sleep

LiveNext ==
    \/ LiveLoop
    \/ \E f \in FileNames, line \in LineSet : AppendLine(f, line)

\* the loop moves on: every step of LiveLoop, and no other step, changes pc, and in
\* every state one of them can be taken
Advance == pc' \in LoopPcs \ {pc}

SpecLive == LiveInit /\ [][LiveNext]_vars /\ WF_pc(Advance)

\* C20: the loop kept running and no persistence call failing, every complete line
\* appended to a file while that file is the greatest log file is eventually read and
\* handed to the parser (which accepts every line of this writer, so that the line's
\* record is persisted): once n lines are written, eventually n records are persisted.
C20_EveryLineRead ==
    \A n \in 1..MaxLiveWrites : (nwrites = n) ~> (Len(log_entries) >= n)

(***************************************************************************)
(* THE LINES OF THE LOG GENERATOR                                          *)
(* generate_log_entry draws a level, a component and one of the message    *)
(* templates of MESSAGES[component][level], fills the template and formats *)
(* the line.  MESSAGES has no templates of level DEBUG: that draw raises   *)
(* KeyError before a line is written, so no written line has level DEBUG.  *)
(* The analyzer is run over a file that holds a batch of such lines.       *)
(***************************************************************************)
COMPONENTS == {Str_Database, Str_API, Str_Auth, <<"C", "a", "c", "h", "e">>,
               <<"Q", "u", "e", "u", "e">>, <<"P", "a", "y", "m", "e", "n", "t">>}

Str_INFO == <<"I", "N", "F", "O">>

Str_WARN == <<"W", "A", "R", "N">>

\* templates of MESSAGES, filled with values generate_values can draw
MESSAGES ==
    {\* Query timeout after 5000ms: SELECT * FROM users WHERE id = 12345
     [component |-> Str_Database, level |-> Str_ERROR, message |->
        <<"Q", "u", "e", "r", "y", " ", "t", "i", "m", "e", "o", "u", "t", " ", "a", "f", "t", "e", "r", " ", "5", "0", "0", "0", "m", "s", ":", " ", "S", "E", "L", "E", "C", "T", " ", "*", " ", "F", "R", "O", "M", " ", "u", "s", "e", "r", "s", " ", "W", "H", "E", "R", "E", " ", "i", "d", " ", "=", " ", "1", "2", "3", "4", "5">>],
     \* Deadlock detected on table users
     [component |-> Str_Database, level |-> Str_ERROR, message |->
        <<"D", "e", "a", "d", "l", "o", "c", "k", " ", "d", "e", "t", "e", "c", "t", "e", "d", " ", "o", "n", " ", "t", "a", "b", "l", "e", " ", "u", "s", "e", "r", "s">>],
     \* Connection pool: 10 active connections
     [component |-> Str_Database, level |-> Str_INFO, message |->
        <<"C", "o", "n", "n", "e", "c", "t", "i", "o", "n", " ", "p", "o", "o", "l", ":", " ", "1", "0", " ", "a", "c", "t", "i", "v", "e", " ", "c", "o", "n", "n", "e", "c", "t", "i", "o", "n", "s">>],
     \* Authentication failed for user_id=1000
     [component |-> Str_API, level |-> Str_ERROR, message |->
        <<"A", "u", "t", "h", "e", "n", "t", "i", "c", "a", "t", "i", "o", "n", " ", "f", "a", "i", "l", "e", "d", " ", "f", "o", "r", " ", "u", "s", "e", "r", "_", "i", "d", "=", "1", "0", "0", "0">>],
     \* Slow response: /api/users took 5000ms
     [component |-> Str_API, level |-> Str_WARN, message |->
        <<"S", "l", "o", "w", " ", "r", "e", "s", "p", "o", "n", "s", "e", ":", " ", "/", "a", "p", "i", "/", "u", "s", "e", "r", "s", " ", "t", "o", "o", "k", " ", "5", "0", "0", "0", "m", "s">>],
     \* Invalid credentials for user_id=1000
     [component |-> Str_Auth, level |-> Str_ERROR, message |->
        <<"I", "n", "v", "a", "l", "i", "d", " ", "c", "r", "e", "d", "e", "n", "t", "i", "a", "l", "s", " ", "f", "o", "r", " ", "u", "s", "e", "r", "_", "i", "d", "=", "1", "0", "0", "0">>],
     \* Session hijacking attempt detected
     [component |-> Str_Auth, level |-> Str_ERROR, message |->
        <<"S", "e", "s", "s", "i", "o", "n", " ", "h", "i", "j", "a", "c", "k", "i", "n", "g", " ", "a", "t", "t", "e", "m", "p", "t", " ", "d", "e", "t", "e", "c", "t", "e", "d">>],
     \* Failed login attempt for user_id=1000
     [component |-> Str_Auth, level |-> Str_WARN, message |->
        <<"F", "a", "i", "l", "e", "d", " ", "l", "o", "g", "i", "n", " ", "a", "t", "t", "e", "m", "p", "t", " ", "f", "o", "r", " ", "u", "s", "e", "r", "_", "i", "d", "=", "1", "0", "0", "0">>],
     \* Cache server unreachable
     [component |-> <<"C", "a", "c", "h", "e">>, level |-> Str_ERROR, message |->
        <<"C", "a", "c", "h", "e", " ", "s", "e", "r", "v", "e", "r", " ", "u", "n", "r", "e", "a", "c", "h", "a", "b", "l", "e">>],
     \* Message processing failed: Timeout
     [component |-> <<"Q", "u", "e", "u", "e">>, level |-> Str_ERROR, message |->
        <<"M", "e", "s", "s", "a", "g", "e", " ", "p", "r", "o", "c", "e", "s", "s", "i", "n", "g", " ", "f", "a", "i", "l", "e", "d", ":", " ", "T", "i", "m", "e", "o", "u", "t">>],
     \* Payment gateway timeout
     [component |-> <<"P", "a", "y", "m", "e", "n", "t">>, level |-> Str_ERROR, message |->
        <<"P", "a", "y", "m", "e", "n", "t", " ", "g", "a", "t", "e", "w", "a", "y", " ", "t", "i", "m", "e", "o", "u", "t">>],
     \* Payment gateway connected
     [component |-> <<"P", "a", "y", "m", "e", "n", "t">>, level |-> Str_INFO, message |->
        <<"P", "a", "y", "m", "e", "n", "t", " ", "g", "a", "t", "e", "w", "a", "y", " ", "c", "o", "n", "n", "e", "c", "t", "e", "d">>]}


\* format(s, "w"): a string shorter than the width is filled with spaces on its right
ljust(s, width) == IF Len(s) >= width THEN s ELSE s \o [i \in 1 .. width - Len(s) |-> " "]

\* f"{timestamp} {level:5} [{component:10}] {message}"
generate_log_entry(timestamp, level, component, message) ==
    timestamp \o <<" ">> \o ljust(level, 5) \o <<" ", "[">> \o ljust(component, 10)
        \o <<"]", " ">> \o message

\* the line written for a draw, with the timestamp of the examples
GeneratedLine(draw) == generate_log_entry(Str_stamp, draw.level, draw.component, draw.message)

\* copies of one line in a generated batch
MaxCopies == 6

\* f.write(log_entry + "\n") for each line
RECURSIVE written(_)
written(lines) == IF lines = <<>> THEN <<>> ELSE lines[1] \o <<NL>> \o written(Tail(lines))

\* batches of lines: up to MaxCopies of one draw, and one line of another draw or none
GeneratedBatches ==
    {Copies(GeneratedLine(c), k) \o rest :
        c \in MESSAGES, k \in 1 .. MaxCopies,
        rest \in {<<>>} \cup {<<GeneratedLine(d)>> : d \in MESSAGES}}

\* main is connected and the generator has written a batch to File_A
GeneratedInit ==
    /\ dir \in {(File_Other :> <<>>) @@ (File_A :> written(b)) : b \in GeneratedBatches}
    /\ wrest = None
    /\ nwrites = 0
    /\ pc = "discover"
    /\ conn = "open"
    /\ log_file = None
    /\ current_file = None
    /\ last_position = 0
    /\ new_lines = <<>>
    /\ parsed_entries = <<>>
    /\ todo = <<>>
    /\ existing = None
    /\ log_entries = <<>>
    /\ issues = <<>>
    /\ tx_writes = <<>>
    /\ now = 0
    /\ complete_lines = {}
    /\ steps = {}
    /\ switched = FALSE
    /\ read_from = None
    /\ insert_failed = FALSE
    /\ persisted = FALSE
    /\ reconciled = FALSE
    /\ detected = FALSE
    /\ tx_obs = <<>>
    /\ ledger = <<>>
    /\ resolved_pairs = {}
    /\ appended = <<>>
    /\ expected = <<>>

GeneratedNext == LiveLoop

SpecGenerated == GeneratedInit /\ [][GeneratedNext]_vars

\* the lines of the batch read in this cycle that were written for a draw of DRAWS
LinesOf(draws) ==
    {i \in DOMAIN new_lines : \E d \in draws : new_lines[i] = GeneratedLine(d) \o <<NL>>}

DatabaseTimeoutDraws ==
    {d \in MESSAGES : /\ d.level = Str_ERROR
                      /\ d.component = Str_Database
                      /\ Contains(lower(d.message), Str_timeout)}

AuthFailureDraws ==
    {d \in MESSAGES : /\ d.level = Str_ERROR
                      /\ d.component = Str_Auth
                      /\ \/ Contains(lower(d.message), Str_failed)
                         \/ Contains(lower(d.message), Str_invalid)}

\* C22: every line the generator writes is parsed into a record whose component is
\* the generator's component name; and when the detector has run over a batch of
\* generated lines, the ERROR lines generated for Database with "timeout" in the
\* message, if any, are counted by a Database Timeout observation, and those
\* generated for Auth with "failed" or "invalid" in the message, if more than 5, by
\* an Authentication Failures observation.
C22_GeneratedCounted ==
    /\ pc = "persist" =>
          /\ Len(parsed_entries) = Len(new_lines)
          /\ \A i \in DOMAIN new_lines : \A d \in MESSAGES :
                new_lines[i] = GeneratedLine(d) \o <<NL>> =>
                    /\ parsed_entries[i].level = d.level
                    /\ parsed_entries[i].component = d.component
                    /\ parsed_entries[i].message = d.message
    /\ ((pc = "select" /\ tx_obs = <<>>) \/ (pc = "sleep" /\ detected /\ ~reconciled)) =>
          /\ LinesOf(DatabaseTimeoutDraws) # {} =>
                \E j \in Observations("Database Timeout") :
                    todo[j].occurrence_count = Cardinality(LinesOf(DatabaseTimeoutDraws))
          /\ Cardinality(LinesOf(AuthFailureDraws)) > 5 =>
                \E j \in Observations("Authentication Failures") :
                    todo[j].occurrence_count = Cardinality(LinesOf(AuthFailureDraws))

====
